---- MODULE Spec2Model ----
\* Model of the ame-audio playback engine: AudioEngine (engine.rs), the decoder
\* thread (decoder.rs), the output stream's hardware callback (output.rs) and
\* the ring buffer between them.
EXTENDS Integers, Sequences, FiniteSets, TLC

\* ---------------------------------------------------------------- bounds

\* Engine calls made by the control context in one behaviour of Spec.
MaxCalls == 2

\* Engine calls made by the control context in one behaviour of DeepSpec.
DeepCalls == 3

\* ------------------------------------------------------------ environment

\* Output devices and the default config each reports (output.rs default_config).
Devices == {"spk", "hp"}

DeviceConfig(dev) ==
    IF dev = "spk" THEN [sample_rate |-> 1, channels |-> 1, format |-> "F32"]
                   ELSE [sample_rate |-> 2, channels |-> 1, format |-> "I16"]

\* Files on disk. "song" is a clean 4 s mono file at 1 Hz in packets of two
\* frames; "junk" is a file no demuxer recognises; "scratch" is a damaged 6 s
\* file: its packet at frame 2 does not decode and the read at frame 4 fails.
Files == {"song", "junk", "scratch"}

NoFile == "none"

FileInfo(f) ==
    IF f = "song"
    THEN [probe_ok |-> TRUE, src_rate |-> 1, channels |-> 1, n_frames |-> 4,
          packet_frames |-> 2, bad_read |-> {}, bad_decode |-> {}]
    ELSE IF f = "scratch"
    THEN [probe_ok |-> TRUE, src_rate |-> 1, channels |-> 1, n_frames |-> 6,
          packet_frames |-> 2, bad_read |-> {4}, bad_decode |-> {2}]
    ELSE [probe_ok |-> FALSE, src_rate |-> 1, channels |-> 1, n_frames |-> 0,
          packet_frames |-> 2, bad_read |-> {}, bad_decode |-> {}]

\* Total duration (ms) of a file: n_frames over sample_rate (source.rs:128-135).
DurationMs(f) == (FileInfo(f).n_frames * 1000) \div FileInfo(f).src_rate

\* Positions (ms) the caller seeks to.
SeekTargets == {0, 3000}

\* Buffer sizes (samples) the hardware asks the callback for.
CallbackSizes == {1, 2}

\* The furthest position (s) a caller passes to Source::seek.
MaxSeekSecs == 4

\* Frames the resampler takes per call (FixedAsync::Input chunk).
ChunkFrames == 4

\* start_position: None
NoPos == -1

VARIABLES
    device,            \* AudioEngine.device
    config,            \* AudioEngine.config and sample_format
    output,            \* AudioEngine.output: Option<OutputStream>
    decoder_handle,    \* AudioEngine.decoder_handle: 0 = None, else thread id
    current_file,      \* AudioEngine.current_file: NoFile = None, else the path
    position_tracker,  \* AudioEngine.position_tracker (ms)
    threads,           \* the decoder threads ever spawned, running or not
    ring,              \* ring[d]: the ring buffer thread d holds the producer of
    handed,            \* history: samples handed to push_samples by thread d
    enq,               \* history: samples push_slice enqueued for thread d
    decoded,           \* history: samples thread d decoded, in decode order
    popped,            \* history: samples the callback took from ring d
    streams,           \* rings whose consumer a built, undropped stream holds
    sources,           \* the Source objects a caller holds, by name
    sought,            \* history: the last Source::seek call and its result
    call,              \* history: the last engine call and what it returned
    budget             \* engine calls the control context has yet to make

vars == <<device, config, output, decoder_handle, current_file, position_tracker,
          threads, ring, handed, enq, decoded, popped, streams, sources, sought,
          call, budget>>

\* Ids of the decoder threads spawned so far, in spawn order.
ThreadIds == 1..Len(threads)

\* Volume is counted in halves: 2 is 1.0f32 (output.rs:24).
VolumeOne == 2

\* Volumes (in halves) the caller passes to set_volume.
VolumeInputs == {-1, 1, 3}

\* AudioEngine.output = None. Of a stream, cons is the ring it holds the consumer
\* of, volume its AtomicU32, hw the data buffer its last callback filled and
\* allocs the heap allocations that invocation made.
NoOutput ==
    [some |-> FALSE, cons |-> 0, running |-> FALSE, volume |-> 0, hw |-> <<>>,
     allocs |-> 0]

NoThread ==
    [pc |-> "unborn", file |-> NoFile, start |-> NoPos, has_tracker |-> FALSE,
     out_rate |-> 0, fpos |-> 0, total |-> 0, in_buf |-> <<>>, pbuf |-> <<>>,
     pstart |-> 0, resampling |-> FALSE, nout |-> 0]

Min(a, b) == IF a < b THEN a ELSE b

\* ---------------------------------------------------------------- engine

\* engine.rs:74: ring_capacity = sample_rate * channels * 2
RingCapacity(cfg) == cfg.sample_rate * cfg.channels * 2

\* A session start that hands the buffer of the running session on.
NewRingKept(cfg) ==
    [cap |-> RingCapacity(cfg),
     buf |-> IF output.some THEN ring[output.cons].buf ELSE <<>>]

\* HeapRb::<Sample>::new(ring_capacity) (engine.rs:77, 111, 196)
NewRing(cfg) == [cap |-> RingCapacity(cfg), buf |-> <<>>]

NoRing == [cap |-> 0, buf |-> <<>>]

\* A session start that builds its stream with the previous one still alive.
AfterDropLate(live) == live

\* self.output = None, directly or in stop() (engine.rs:142, 185): the stream
\* the engine held is dropped and with it its callback and ring consumer.
AfterDrop(live) == live \ {output.cons}

\* The stream a call leaves in self.output, if any (engine.rs:86-88, 209-213); a
\* stream that failed to build or start is dropped on the early return.
StreamOf(out) == IF out.some THEN {out.cons} ELSE {}

\* The sources a caller can hold: a FileSource, a NetworkSource::new and a
\* NetworkSource::with_url whose server supports range requests.
Sources == {"file", "plain", "ranged"}

\* FileSource::new (source.rs:26-35), NetworkSource::new (source.rs:84-91),
\* NetworkSource::with_url (source.rs:93-104)
SourceNew(s) ==
    [network |-> s # "file", supports_range |-> s = "ranged", current_pos |-> 0]

\* No Source::seek call yet.
NoSeek == [source |-> "none", position |-> 0, result |-> "none"]

\* AudioEngine::new / with_device, with n engine calls to come
InitWith(n) ==
    /\ budget = n
    /\ device \in Devices
    /\ config = DeviceConfig(device)
    /\ output = NoOutput
    /\ decoder_handle = 0
    /\ current_file = NoFile
    /\ position_tracker = 0
    /\ threads = <<>>
    /\ ring = <<>>
    /\ handed = <<>>
    /\ enq = <<>>
    /\ decoded = <<>>
    /\ popped = <<>>
    /\ streams = {}
    /\ sources = [s \in Sources |-> SourceNew(s)]
    /\ sought = NoSeek
    /\ call = [n |-> 0, op |-> "new", arg |-> 0, result |-> "Ok"]

Init == InitWith(MaxCalls)

InitDeep == InitWith(DeepCalls)

\* The call op(arg) returned result.
ReturnedWith(op, arg, result) ==
    /\ call' = [n |-> call.n + 1, op |-> op, arg |-> arg, result |-> result]
    /\ budget' = budget - 1

Returned(op, result) == ReturnedWith(op, 0, result)

CanCall == budget > 0

\* A decoder thread is spawned on a new ring buffer; its id is returned as the
\* JoinHandle.
Spawned(t) ==
    /\ threads' = Append(threads, t)
    /\ ring' = Append(ring, NewRing(config))
    /\ handed' = Append(handed, <<>>)
    /\ enq' = Append(enq, <<>>)
    /\ decoded' = Append(decoded, <<>>)
    /\ popped' = Append(popped, <<>>)
    /\ decoder_handle' = Len(threads) + 1

NoSpawn == UNCHANGED <<threads, ring, handed, enq, decoded, popped>>

\* Decoder::spawn / Decoder::spawn_at: a new thread at the top of decode_loop.
SpawnedThread(f, start, has_tracker) ==
    [NoThread EXCEPT !.pc = "probe", !.file = f, !.start = start,
                     !.has_tracker = has_tracker,
                     !.out_rate = config.sample_rate]

\* Decoder::spawn (decoder.rs:24-32): decode_loop(.., None, None)
Spawn(f) == SpawnedThread(f, NoPos, FALSE)

\* Decoder::spawn_at (decoder.rs:34-50), as seek_to calls it (engine.rs:201-207)
SpawnAt(f, position) == SpawnedThread(f, position, TRUE)

\* OutputStream::new then output.play(), as play_file, play and seek_to run them
\* after self.output was set to None: the stream is stored only when both
\* succeed; on an error the consumer half is dropped with the failed stream.
StartOutput(d, built, started) ==
    IF built /\ started
    THEN [some |-> TRUE, cons |-> d, running |-> TRUE, volume |-> VolumeOne,
          hw |-> <<>>, allocs |-> 0]
    ELSE NoOutput

OutputResult(built, started) ==
    IF ~built THEN "CpalBuild" ELSE IF ~started THEN "CpalPlay" ELSE "Ok"

\* A stop that keeps the retained source.
StoppedKeepsSource ==
    /\ output' = NoOutput
    /\ decoder_handle' = 0
    /\ current_file' = current_file
    /\ position_tracker' = 0
    /\ streams' = AfterDrop(streams)

\* AudioEngine::stop (engine.rs:141-146), the fields it writes
Stopped ==
    /\ output' = NoOutput
    /\ decoder_handle' = 0
    /\ current_file' = NoFile
    /\ position_tracker' = 0
    /\ streams' = AfterDrop(streams)

\* A play_file that forgets the source.
RetainedByPlayFileNone(f) == NoFile

\* The file retained by play_file (engine.rs:64)
RetainedByPlayFile(f) == f

\* AudioEngine::play_file (engine.rs:60-93)
play_file ==
    /\ CanCall
    /\ \E f \in Files, opened \in BOOLEAN, built \in BOOLEAN, started \in BOOLEAN :
         IF ~opened
         THEN \* stop(), then FileSource::new(source.path()) fails
              /\ Stopped
              /\ Returned("play_file", "Io")
              /\ NoSpawn
         ELSE /\ current_file' = RetainedByPlayFile(f)
              /\ position_tracker' = 0
              /\ Spawned(Spawn(f))
              /\ output' = StartOutput(Len(threads) + 1, built, started)
              /\ streams' = AfterDrop(streams) \cup StreamOf(output')
              /\ Returned("play_file", OutputResult(built, started))
    /\ UNCHANGED <<device, config, sources, sought>>

\* The file retained by play: none, stop() cleared it (engine.rs:96-98)
RetainedByPlay(f) == NoFile

\* AudioEngine::play (engine.rs:95-127): a boxed FileSource of file f
play ==
    /\ CanCall
    /\ \E f \in Files, built \in BOOLEAN, started \in BOOLEAN :
         /\ current_file' = RetainedByPlay(f)
         /\ position_tracker' = 0
         /\ Spawned(Spawn(f))
         /\ output' = StartOutput(Len(threads) + 1, built, started)
         /\ streams' = AfterDrop(streams) \cup StreamOf(output')
         /\ Returned("play", OutputResult(built, started))
    /\ UNCHANGED <<device, config, sources, sought>>

\* A stream call that gives up the stream when the device reports an error.
StreamSetOrDropped(running, ok) ==
    IF output.some /\ ok THEN [output EXCEPT !.running = running] ELSE NoOutput

\* if let Some(ref output) = self.output { let _ = output.pause() } and the same
\* with play() (engine.rs:130-132, 136-138): the stream runs or not as asked
\* unless the device reports an error, which is dropped.
StreamSet(running, ok) ==
    IF output.some /\ ok THEN [output EXCEPT !.running = running] ELSE output

\* AudioEngine::pause (engine.rs:129-133); a device error is dropped
pause ==
    /\ CanCall
    /\ \E ok \in BOOLEAN : output' = StreamSet(FALSE, ok)
    /\ Returned("pause", "Ok")
    /\ UNCHANGED <<streams, sources, sought>>
    /\ UNCHANGED <<device, config, decoder_handle, current_file, position_tracker,
                   threads, ring, handed, enq, decoded, popped>>

\* AudioEngine::resume (engine.rs:135-139); a device error is dropped
resume ==
    /\ CanCall
    /\ \E ok \in BOOLEAN : output' = StreamSet(TRUE, ok)
    /\ Returned("resume", "Ok")
    /\ UNCHANGED <<streams, sources, sought>>
    /\ UNCHANGED <<device, config, decoder_handle, current_file, position_tracker,
                   threads, ring, handed, enq, decoded, popped>>

\* AudioEngine::stop (engine.rs:141-146)
stop ==
    /\ CanCall
    /\ Stopped
    /\ Returned("stop", "Ok")
    /\ UNCHANGED <<device, config, threads, ring, handed, enq, decoded, popped,
                   sources, sought>>

\* volume.clamp(0.0, 1.0) (engine.rs:149, output.rs:54)
Clamped(v) == IF v < 0 THEN 0 ELSE IF v > VolumeOne THEN VolumeOne ELSE v

\* AudioEngine::set_volume (engine.rs:148-154) over OutputStream::set_volume
\* (output.rs:52-55)
set_volume ==
    /\ CanCall
    /\ \E v \in VolumeInputs :
         /\ output' = IF output.some THEN [output EXCEPT !.volume = Clamped(Clamped(v))]
                                     ELSE output
         /\ ReturnedWith("set_volume", v, "Ok")
    /\ UNCHANGED <<streams, sources, sought>>
    /\ UNCHANGED <<device, config, decoder_handle, current_file, position_tracker,
                   threads, ring, handed, enq, decoded, popped>>

\* A set_device that stops the session before it asks for the config.
ConfigQueryFailedStopped ==
    /\ UNCHANGED <<device, config>>
    /\ Stopped

\* default_config(&device)? fails (engine.rs:157): set_device returns before
\* any assignment.
ConfigQueryFailed ==
    UNCHANGED <<device, config, output, decoder_handle, current_file,
                position_tracker, streams>>

\* AudioEngine::set_device (engine.rs:156-165)
set_device ==
    /\ CanCall
    /\ \E dev \in Devices, ok \in BOOLEAN :
         IF ~ok
         THEN /\ ReturnedWith("set_device", dev, "CpalConfig")
              /\ ConfigQueryFailed
         ELSE /\ device' = dev
              /\ config' = DeviceConfig(dev)
              /\ Stopped
              /\ ReturnedWith("set_device", dev, "Ok")
    /\ UNCHANGED <<threads, ring, handed, enq, decoded, popped, sources, sought>>

\* engine.rs:182: let is_playing = self.output.is_some()
IsPlaying == output.some

\* A torn-down variant of SeekNoSource: the session is dropped before the source
\* is looked at.
SeekNoSourceTornDown ==
    /\ Returned("seek_to", "DeviceNotAvailable")
    /\ output' = NoOutput
    /\ streams' = AfterDrop(streams)
    /\ decoder_handle' = 0
    /\ UNCHANGED position_tracker
    /\ NoSpawn

\* seek_to with no current_file (engine.rs:176-179): the early return
SeekNoSource ==
    /\ Returned("seek_to", "DeviceNotAvailable")
    /\ UNCHANGED <<output, decoder_handle, position_tracker, streams>>
    /\ NoSpawn

\* AudioEngine::seek_to (engine.rs:172-219)
seek_to ==
    /\ CanCall
    /\ \E position \in SeekTargets, reopened \in BOOLEAN, built \in BOOLEAN,
          started \in BOOLEAN :
         IF current_file = NoFile
         THEN SeekNoSource
         ELSE IF ~reopened
         THEN \* fs.reopen()? fails
              /\ Returned("seek_to", "Io")
              /\ UNCHANGED <<output, decoder_handle, position_tracker, streams>>
              /\ NoSpawn
         ELSE /\ position_tracker' = position
              /\ Spawned(SpawnAt(current_file, position))
              /\ IF IsPlaying
                 THEN /\ output' = StartOutput(Len(threads) + 1, built, started)
                      /\ Returned("seek_to", OutputResult(built, started))
                 ELSE /\ output' = NoOutput
                      /\ Returned("seek_to", "Ok")
              /\ streams' = AfterDrop(streams) \cup StreamOf(output')
    /\ UNCHANGED <<device, config, current_file, sources, sought>>

\* AudioEngine::current_position (engine.rs:167-170)
current_position == position_tracker

\* --------------------------------------------------------------- decoder

\* Interleaved samples of the packet at frame fpos, named by their index in the
\* source (decoder.rs:141-145).
PacketSamples(info, fpos) ==
    [i \in 1..(info.packet_frames * info.channels) |-> fpos * info.channels + i - 1]

\* decoder.rs:99-117: the frame decoding starts from. A successful format seek
\* lands on the packet holding the target; a failed one leaves the reader at the
\* stream's start.
SeekLanding(info, start, seek_ok) ==
    LET frame == (start * info.src_rate) \div 1000 IN
    IF start = NoPos \/ start <= 0 THEN 0
    ELSE IF seek_ok /\ frame < info.n_frames
         THEN (frame \div info.packet_frames) * info.packet_frames
         ELSE 0

\* decoder.rs:150-151: the position stored after a packet
CurrentMs(t, total) ==
    (IF t.start = NoPos THEN 0 ELSE t.start)
      + (total * 1000) \div FileInfo(t.file).src_rate

\* Output frames the resampler yields for one input chunk (decoder.rs:213-219).
ResampledSamples(t) ==
    LET info == FileInfo(t.file)
        n == ((ChunkFrames * t.out_rate) \div info.src_rate) * info.channels
    IN [i \in 1..n |-> 0 - (t.nout + i)]

\* The thread after its staging buffer changed: decode_loop lines 155-160 with
\* the loop head of process_resampling (decoder.rs:206). It stands either in
\* push_samples with a slice to push, or back at next_packet.
Route(t) ==
    LET info == FileInfo(t.file) IN
    IF t.resampling
    THEN IF Len(t.in_buf) \div info.channels >= ChunkFrames
         THEN [t EXCEPT !.pc = "push", !.pbuf = ResampledSamples(t), !.pstart = 0,
                        !.nout = t.nout + Len(ResampledSamples(t))]
         ELSE [t EXCEPT !.pc = "read", !.pbuf = <<>>, !.pstart = 0]
    ELSE [t EXCEPT !.pc = "push", !.pbuf = t.in_buf, !.pstart = 0]

\* The thread after push_samples returned: in_buf.clear() (decoder.rs:159) or
\* in_buf.drain(..nbr_in * channels) (decoder.rs:221) and the next loop test.
AfterPush(t) ==
    LET info == FileInfo(t.file) IN
    IF t.resampling
    THEN Route([t EXCEPT !.in_buf =
                   SubSeq(t.in_buf, ChunkFrames * info.channels + 1, Len(t.in_buf))])
    ELSE [t EXCEPT !.pc = "read", !.in_buf = <<>>, !.pbuf = <<>>, !.pstart = 0]

\* What was handed to push_samples when the thread entered it.
HandedBy(t) == IF t.pc = "push" THEN t.pbuf ELSE <<>>

\* decode_loop up to the loop (decoder.rs:59-129): probe, track, codec, seek.
DecoderStart(d) ==
    /\ threads[d].pc = "probe"
    /\ LET t == threads[d]
           info == FileInfo(t.file)
       IN IF ~info.probe_ok
          THEN threads' = [threads EXCEPT ![d].pc = "err"]
          ELSE \E seek_ok \in BOOLEAN :
                 threads' = [threads EXCEPT ![d] =
                               [t EXCEPT !.pc = "read",
                                         !.fpos = SeekLanding(info, t.start, seek_ok),
                                         !.resampling = (info.src_rate # t.out_rate)]]
    /\ UNCHANGED <<streams, sources, sought>>
    /\ UNCHANGED <<device, config, output, decoder_handle, current_file,
                   position_tracker, ring, handed, enq, decoded, popped, call,
                   budget>>

\* A read error that ends every decoder thread of the process.
ReadFailedAll(d) == [e \in DOMAIN threads |-> [threads[e] EXCEPT !.pc = "err"]]

\* next_packet fails with an error other than end of stream (decoder.rs:138):
\* the thread returns Err.
ReadFailed(d) == [threads EXCEPT ![d].pc = "err"]

\* decoder.decode(&packet) fails (decoder.rs:141): the if-let has no else, the
\* loop goes on with the next packet.
DecodeFailed(d) ==
    [threads EXCEPT ![d].fpos = threads[d].fpos + FileInfo(threads[d].file).packet_frames]

\* One turn of the loop up to push_samples (decoder.rs:131-160).
DecoderRead(d) ==
    /\ threads[d].pc = "read"
    /\ LET t == threads[d]
           info == FileInfo(t.file)
       IN IF t.fpos >= info.n_frames
          THEN \* UnexpectedEof: break, Ok(())
               /\ threads' = [threads EXCEPT ![d].pc = "ok"]
               /\ UNCHANGED <<position_tracker, handed, decoded>>
          ELSE IF t.fpos \in info.bad_read
          THEN \* any other next_packet error
               /\ threads' = ReadFailed(d)
               /\ UNCHANGED <<position_tracker, handed, decoded>>
          ELSE IF t.fpos \in info.bad_decode
          THEN \* decoder.decode fails: the if-let skips the packet
               /\ threads' = DecodeFailed(d)
               /\ UNCHANGED <<position_tracker, handed, decoded>>
          ELSE LET total == t.total + info.packet_frames
                   next == Route([t EXCEPT
                              !.fpos = t.fpos + info.packet_frames,
                              !.total = total,
                              !.in_buf = t.in_buf \o PacketSamples(info, t.fpos)])
               IN /\ threads' = [threads EXCEPT ![d] = next]
                  /\ position_tracker' = IF t.has_tracker THEN CurrentMs(t, total)
                                                          ELSE position_tracker
                  /\ handed' = [handed EXCEPT ![d] = handed[d] \o HandedBy(next)]
                  /\ decoded' = [decoded EXCEPT ![d] =
                                    decoded[d] \o PacketSamples(info, t.fpos)]
    /\ UNCHANGED <<streams, sources, sought>>
    /\ UNCHANGED <<device, config, output, decoder_handle, current_file, ring, enq,
                   popped, call, budget>>

\* A push that takes everything whatever room the buffer has.
PushSliceAll(r, remaining) == remaining

\* prod.push_slice(&samples[start..]) (decoder.rs:232): how many samples go in
PushSlice(r, remaining) == Min(r.cap - Len(r.buf), remaining)

\* A push loop that gives up on a sample when the buffer is full.
NextStartSkipping(start, pushed) == IF pushed = 0 THEN start + 1 ELSE start + pushed

\* decoder.rs:236: start += pushed
NextStart(start, pushed) == start + pushed

\* One turn of the loop of push_samples (decoder.rs:231-237); with nothing
\* pushed the thread sleeps and tries again.
DecoderPush(d) ==
    /\ threads[d].pc = "push"
    /\ LET t == threads[d]
           pushed == PushSlice(ring[d], Len(t.pbuf) - t.pstart)
           part == SubSeq(t.pbuf, t.pstart + 1, t.pstart + pushed)
           start == NextStart(t.pstart, pushed)
           next == IF start < Len(t.pbuf) THEN [t EXCEPT !.pstart = start]
                                          ELSE AfterPush(t)
       IN /\ ring' = [ring EXCEPT ![d].buf = ring[d].buf \o part]
          /\ enq' = [enq EXCEPT ![d] = enq[d] \o part]
          /\ threads' = [threads EXCEPT ![d] = next]
          /\ handed' = [handed EXCEPT ![d] =
                          IF start < Len(t.pbuf) THEN handed[d]
                                                 ELSE handed[d] \o HandedBy(next)]
    /\ UNCHANGED <<streams, sources, sought>>
    /\ UNCHANGED <<device, config, output, decoder_handle, current_file,
                   position_tracker, decoded, popped, call, budget>>

\* One step of decoder thread d.
ThreadStep(d) ==
    /\ d \in ThreadIds
    /\ (DecoderStart(d) \/ DecoderRead(d) \/ DecoderPush(d))

\* The steps of the decoder threads, by place in decode_loop.
DecoderStarts == \E d \in ThreadIds : DecoderStart(d)

DecoderReads == \E d \in ThreadIds : DecoderRead(d)

DecoderPushes == \E d \in ThreadIds : DecoderPush(d)

\* ---------------------------------------------------------------- output

\* The value of sample i of a stream, in quarters of full scale (-4 is -1.0, 4
\* is 1.0): the content of the audio, the same for every reader.
Amplitude(i) == (((i % 9) + 9) % 9) - 4

\* The f32 placed in f32_buf where pop_slice wrote nothing (output.rs:71).
Zero == 0

\* A saturating float to i16 cast.
Saturated(x) == IF x > 32767 THEN 32767 ELSE IF x < -32768 THEN -32768 ELSE x

\* T::from_sample(x) (output.rs:75) of the f32 x, given in eighths of full scale:
\* an f32 is kept, an i16 is x * 32768 cast to i16, a u16 is that i16 moved up
\* by 32768.
FromSample(format, x) ==
    IF format = "F32" THEN x
    ELSE IF format = "I16" THEN Saturated(x * 4096)
    ELSE Saturated(x * 4096) + 32768

\* A callback that leaves the volume out.
ScaledLoud(a, vol) == a * VolumeOne

\* sample * vol (output.rs:75): quarters times halves are eighths.
Scaled(a, vol) == a * vol

\* A pop that takes the newest samples.
PopSliceNewest(buf, k) ==
    [taken |-> [i \in 1..k |-> buf[Len(buf) + 1 - i]],
     rest |-> SubSeq(buf, 1, Len(buf) - k)]

\* consumer.pop_slice (output.rs:72) taking k samples: the oldest k leave.
PopSlice(buf, k) ==
    [taken |-> SubSeq(buf, 1, k), rest |-> SubSeq(buf, k + 1, Len(buf))]

\* A callback that writes only the samples it got.
WrittenNoFill(format, vol, taken, n) ==
    [i \in 1..Len(taken) |-> FromSample(format, Scaled(Amplitude(taken[i]), vol))]

\* The data buffer of n samples the callback hands back (output.rs:70-76):
\* f32_buf holds the samples taken, then zeros; each is scaled and converted.
Written(format, vol, taken, n) ==
    [i \in 1..n |->
       FromSample(format,
                  Scaled(IF i <= Len(taken) THEN Amplitude(taken[i]) ELSE Zero, vol))]

\* let mut f32_buf = vec![0.0; data.len()] (output.rs:71): a Vec of n > 0
\* elements is one allocation on the heap, freed when the callback returns.
Allocations(n) == IF n > 0 THEN 1 ELSE 0

\* The hardware callback (output.rs:69-77) asked for n samples: pop_slice takes
\* what is there, the rest of the buffer stays zero.
Callback ==
    /\ output.some
    /\ output.running
    /\ \E n \in CallbackSizes :
         LET d == output.cons
             k == Min(n, Len(ring[d].buf))
             pop == PopSlice(ring[d].buf, k)
         IN /\ ring' = [ring EXCEPT ![d].buf = pop.rest]
            /\ popped' = [popped EXCEPT ![d] = popped[d] \o pop.taken]
            /\ output' = [output EXCEPT
                            !.hw = Written(config.format, output.volume, pop.taken, n),
                            !.allocs = Allocations(n)]
    /\ UNCHANGED <<streams, sources, sought>>
    /\ UNCHANGED <<device, config, decoder_handle, current_file, position_tracker,
                   threads, handed, enq, decoded, call, budget>>

Next ==
    \/ play_file
    \/ play
    \/ pause
    \/ resume
    \/ stop
    \/ set_volume
    \/ set_device
    \/ seek_to
    \/ DecoderStarts
    \/ DecoderReads
    \/ DecoderPushes
    \/ Callback

Spec == Init /\ [][Next]_vars

DeepSpec == InitDeep /\ [][Next]_vars

\* The scheduler runs every decoder thread that can take a step, and the audio
\* host keeps calling the callback of a running stream.
Fairness ==
    /\ \A d \in 1..MaxCalls : WF_vars(ThreadStep(d))
    /\ WF_vars(Callback)

FairSpec == Init /\ [][Next]_vars /\ Fairness

\* The state a successful play_file(f) leaves a new engine in (engine.rs:60-93).
InitSession ==
    /\ budget = MaxCalls
    /\ device \in Devices
    /\ config = DeviceConfig(device)
    /\ \E f \in Files :
         /\ current_file = RetainedByPlayFile(f)
         /\ threads = <<Spawn(f)>>
    /\ ring = <<NewRing(config)>>
    /\ output = StartOutput(1, TRUE, TRUE)
    /\ decoder_handle = 1
    /\ position_tracker = 0
    /\ handed = <<<<>>>>
    /\ enq = <<<<>>>>
    /\ decoded = <<<<>>>>
    /\ popped = <<<<>>>>
    /\ streams = {1}
    /\ sources = [s \in Sources |-> SourceNew(s)]
    /\ sought = NoSeek
    /\ call = [n |-> 1, op |-> "play_file", arg |-> 0, result |-> "Ok"]

\* One session from play_file on: the calls that start no other session, its
\* decoder thread and the callback of its stream.
SessionNext ==
    \/ pause
    \/ resume
    \/ stop
    \/ set_volume
    \/ set_device
    \/ DecoderStarts
    \/ DecoderReads
    \/ DecoderPushes
    \/ Callback

SessionSpec == InitSession /\ [][SessionNext]_vars /\ Fairness

\* Positions (ms) a caller passes to Source::seek.
SeekPositions == {p * 1000 : p \in 0..MaxSeekSecs}

\* Source::is_seekable (source.rs:55-57, 173-175)
IsSeekable(src) == IF src.network THEN src.supports_range ELSE TRUE

\* A network seek that moves the position before it looks at range support.
SeekEager(src, position, io_ok) ==
    IF src.network
    THEN [src |-> [src EXCEPT !.current_pos = position],
          result |-> IF src.supports_range THEN "Ok" ELSE "Unsupported"]
    ELSE IF io_ok THEN [src |-> [src EXCEPT !.current_pos = position], result |-> "Ok"]
                  ELSE [src |-> src, result |-> "Io"]

\* Source::seek of NetworkSource (source.rs:177-186) and of FileSource
\* (source.rs:59-65), whose file.seek(SeekFrom::Start(0))? may fail.
Seek(src, position, io_ok) ==
    IF src.network
    THEN IF ~src.supports_range
         THEN [src |-> src, result |-> "Unsupported"]
         ELSE [src |-> [src EXCEPT !.current_pos = position], result |-> "Ok"]
    ELSE IF io_ok THEN [src |-> [src EXCEPT !.current_pos = position], result |-> "Ok"]
                  ELSE [src |-> src, result |-> "Io"]

\* A caller seeks one of its sources.
source_seek ==
    /\ \E s \in Sources, position \in SeekPositions, io_ok \in BOOLEAN :
         LET r == Seek(sources[s], position, io_ok)
         IN /\ sources' = [sources EXCEPT ![s] = r.src]
            /\ sought' = [source |-> s, position |-> position, result |-> r.result]
    /\ UNCHANGED <<device, config, output, decoder_handle, current_file,
                   position_tracker, threads, ring, handed, enq, decoded, popped,
                   streams, call, budget>>

\* Sources on their own: any sequence of seek calls on them.
SourceNext == source_seek

SourceSpec == Init /\ [][SourceNext]_vars

\* Sample formats OutputStream::new builds a stream for (output.rs:29-34).
Formats == {"F32", "I16", "U16"}

\* Samples a ring buffer may hold when a callback begins: -1.0, -0.5, 0.0, 0.75
\* and 1.0 of full scale.
BufferedSamples == {0, 2, 4, 7, 8}

\* Ring buffer contents of up to two samples.
Buffers ==
    {<<>>} \cup {<<a>> : a \in BufferedSamples}
           \cup {<<a, b>> : a \in BufferedSamples, b \in BufferedSamples}

\* A session playing on a device of each sample format, at each volume, its
\* decoder finished and any samples left in the ring buffer.
InitCallback ==
    /\ device = "spk"
    /\ \E format \in Formats : config = [DeviceConfig("spk") EXCEPT !.format = format]
    /\ \E vol \in 0..VolumeOne :
         output = [some |-> TRUE, cons |-> 1, running |-> TRUE, volume |-> vol,
                   hw |-> <<>>, allocs |-> 0]
    /\ decoder_handle = 1
    /\ current_file = "song"
    /\ position_tracker = 0
    /\ threads = <<[NoThread EXCEPT !.pc = "ok", !.file = "song",
                                    !.out_rate = config.sample_rate]>>
    /\ \E buf \in Buffers :
         /\ ring = <<[cap |-> RingCapacity(config), buf |-> buf]>>
         /\ handed = <<buf>>
         /\ enq = <<buf>>
         /\ decoded = <<buf>>
    /\ popped = <<<<>>>>
    /\ streams = {1}
    /\ sources = [s \in Sources |-> SourceNew(s)]
    /\ sought = NoSeek
    /\ call = [n |-> 0, op |-> "play_file", arg |-> 0, result |-> "Ok"]
    /\ budget = MaxCalls

\* The callback of one stream, the caller setting its volume between invocations.
CallbackNext == set_volume \/ Callback

CallbackSpec == InitCallback /\ [][CallbackNext]_vars

\* ---------------------------------------------------------------- claims

\* The step is an engine call.
EngineCall == call'.n # call.n

\* The step is the engine call op.
Called(op) == EngineCall /\ call'.op = op

Playing == output.some /\ output.running

Paused == output.some /\ ~output.running

Idle ==
    /\ ~output.some
    /\ decoder_handle = 0
    /\ current_file = NoFile
    /\ position_tracker = 0

Terminated(d) == threads[d].pc \in {"ok", "err"}

\* Samples handed to push_samples that thread d has yet to enqueue.
Pending(d) ==
    IF threads[d].pc = "push"
    THEN SubSeq(threads[d].pbuf, threads[d].pstart + 1, Len(threads[d].pbuf))
    ELSE <<>>

IsSuffix(s, t) ==
    /\ Len(s) <= Len(t)
    /\ s = SubSeq(t, Len(t) - Len(s) + 1, Len(t))

\* C1: a successful seek_to returns the engine to the state it was called from:
\* called while Paused it leaves the engine Paused, called while Playing it
\* leaves it Playing.
C1_SeekKeepsState ==
    [][(Called("seek_to") /\ call'.result = "Ok" /\ output.some)
         => (output'.some /\ output'.running = output.running)]_vars

\* C2: after a successful seek_to(t), until the next engine call, the position
\* reads exactly t while the new decoder has decoded no packet, and every value
\* read is >= t and never decreases.
C2_PositionAfterSeek ==
    [][(call' = call /\ call.op = "seek_to" /\ call.result = "Ok")
         => LET t == threads[decoder_handle].start IN
            /\ current_position' >= t
            /\ current_position' >= current_position
            /\ (threads'[decoder_handle].total = 0 => current_position' = t)]_vars

\* C3: during playback started by play or play_file the decoder stores
\* start_position + decoded_frames * 1000 / source_rate into the position
\* tracker after every decoded packet.
C3_PlayStoresPosition ==
    (/\ call.op \in {"play", "play_file"}
     /\ call.result = "Ok"
     /\ threads[decoder_handle].total > 0)
      => current_position = CurrentMs(threads[decoder_handle],
                                      threads[decoder_handle].total)

\* C4: the position tracker is written only by the active decoder: outside
\* engine calls it changes only in a step of the thread the engine holds the
\* handle of, so after stop() it stays 0.
C4_OnlyActiveDecoderWrites ==
    [][(~EngineCall /\ position_tracker' # position_tracker)
         => (/\ decoder_handle # 0
             /\ threads'[decoder_handle] # threads[decoder_handle])]_vars

\* C5: under fair scheduling the decoder thread of a discarded session
\* eventually terminates.
C5_DiscardedTerminates ==
    \A d \in 1..MaxCalls :
      [](d \in ThreadIds /\ d # decoder_handle
           => <>(d \in ThreadIds /\ Terminated(d)))

\* C6: when play or play_file returns an error the engine is Idle afterwards: no
\* output stream, no decoder handle, no retained source, position 0.
C6_FailedPlayIsIdle ==
    [][((Called("play") \/ Called("play_file")) /\ call'.result # "Ok")
         => Idle']_vars

\* C7: playing a source whose format cannot be probed fails the play call
\* itself and starts no output stream for it.
C7_UnprobeablePlayFails ==
    [][((Called("play") \/ Called("play_file"))
          /\ decoder_handle' # 0
          /\ ~FileInfo(threads'[decoder_handle'].file).probe_ok)
         => (call'.result # "Ok" /\ ~output'.some)]_vars

\* C8: seek_to called while the engine retains no source returns
\* DeviceNotAvailable and leaves output stream, decoder handle, decoder threads,
\* ring buffers and position tracker unchanged.
C8_SeekWithoutSource ==
    [][(Called("seek_to") /\ current_file = NoFile)
         => (/\ call'.result = "DeviceNotAvailable"
             /\ UNCHANGED <<output, decoder_handle, threads, ring,
                            position_tracker, current_file>>)]_vars

\* C8 witness: seek_to has failed for lack of a source while a session started
\* by play() is running and its decoder has buffered samples.
C8_Witness ==
    /\ call.op = "seek_to"
    /\ call.result = "DeviceNotAvailable"
    /\ Playing
    /\ decoder_handle # 0
    /\ ring[output.cons].buf # <<>>

\* C9 as claimed: after a successful play or play_file the next seek_to does not
\* fail for lack of a source.
C9_PlayRetainsSource ==
    [][(/\ call.op \in {"play", "play_file"}
        /\ call.result = "Ok"
        /\ Called("seek_to"))
         => call'.result # "DeviceNotAvailable"]_vars

\* C9 amended: a successful play_file retains the source, and the next seek_to
\* does not fail for lack of a source.
C9_PlayFileRetainsSource ==
    [][/\ (Called("play_file") /\ call'.result = "Ok") => current_file' # NoFile
       /\ (call.op = "play_file" /\ call.result = "Ok" /\ Called("seek_to"))
            => call'.result # "DeviceNotAvailable"]_vars

\* C9 witness: a seek_to right after play_file went through and spawned its
\* decoder at the target.
C9_Witness ==
    /\ call.op = "seek_to"
    /\ call.result = "Ok"
    /\ Len(threads) = 2
    /\ ~threads[1].has_tracker
    /\ threads[2].start = 3000
    /\ current_file = "song"

\* C10: back-pressure never drops data: what each thread enqueued followed by
\* what it still holds of the slice being pushed is exactly what was handed to
\* push_samples, in order; a buffer holds the latest of what was enqueued and
\* never more than its capacity, sample_rate x channels x 2.
C10_NoDrop ==
    \A d \in ThreadIds :
      /\ enq[d] \o Pending(d) = handed[d]
      /\ IsSuffix(ring[d].buf, enq[d])
      /\ Len(ring[d].buf) <= ring[d].cap
      /\ d = decoder_handle => ring[d].cap = RingCapacity(config)

\* C10 witness: a decoder has pushed part of a slice into a buffer that is now
\* full and holds the rest for its next try.
C10_Witness ==
    \E d \in ThreadIds :
      /\ threads[d].pc = "push"
      /\ threads[d].pstart > 0
      /\ threads[d].pstart < Len(threads[d].pbuf)
      /\ Len(ring[d].buf) = ring[d].cap
      /\ output.some /\ output.cons = d

IsPrefix(s, t) ==
    /\ Len(s) <= Len(t)
    /\ s = SubSeq(t, 1, Len(s))

\* C11: in a session whose decoder does not resample, the samples the callback
\* has taken from the ring buffer are a prefix of the samples the decoder has
\* decoded: same order, none duplicated, skipped or reordered.
C11_CallbackGetsPrefix ==
    \A d \in ThreadIds :
      ~threads[d].resampling => IsPrefix(popped[d], decoded[d])

\* C11 witness: the callback has taken samples of two packets from a directly
\* fed ring buffer, in more than one invocation.
C11_Witness ==
    \E d \in ThreadIds :
      /\ ~threads[d].resampling
      /\ Len(popped[d]) >= 3
      /\ Len(decoded[d]) > Len(popped[d])
      /\ output.some /\ output.cons = d

\* The step is an invocation of the hardware callback that changed something.
CallbackStep == ~EngineCall /\ threads' = threads

\* C12: an invocation of the callback asking for n samples with k buffered is
\* always possible while the stream runs and ends in one step: it writes the
\* min(n, k) oldest buffered samples scaled by the volume, then n - min(n, k)
\* silence samples, removes exactly those min(n, k) samples from the buffer and
\* reports nothing to the engine.
C12_CallbackNeverWaits ==
    /\ [](Playing => ENABLED Callback)
    /\ [][CallbackStep =>
            /\ Playing
            /\ \E n \in CallbackSizes :
                 LET buf == ring[output.cons].buf
                     k == Min(n, Len(buf))
                 IN /\ Len(output'.hw) = n
                    /\ \A i \in 1..k :
                         output'.hw[i] =
                           FromSample(config.format,
                                      Scaled(Amplitude(buf[i]), output.volume))
                    /\ \A i \in (k + 1)..n :
                         output'.hw[i] = FromSample(config.format, Zero)
                    /\ ring'[output.cons].buf = SubSeq(buf, k + 1, Len(buf))
                    /\ Len(ring'[output.cons].buf) = Len(buf) - k
            /\ \A d \in ThreadIds : d # output.cons => ring'[d] = ring[d]
            /\ output' = [output EXCEPT !.hw = output'.hw, !.allocs = output'.allocs]
            /\ UNCHANGED <<call, device, config, decoder_handle, current_file,
                           position_tracker>>]_vars

\* C12 witness: at half volume the callback asked for two samples with one
\* buffered: it wrote that sample scaled and one silence sample, and the buffer
\* is empty.
C12_Witness ==
    /\ Playing
    /\ output.volume = 1
    /\ Len(output.hw) = 2
    /\ popped[output.cons] # <<>>
    /\ output.hw[1] =
         FromSample(config.format,
                    Scaled(Amplitude(popped[output.cons][Len(popped[output.cons])]), 1))
    /\ output.hw[1] # FromSample(config.format, Zero)
    /\ output.hw[2] = FromSample(config.format, Zero)
    /\ ring[output.cons].buf = <<>>

\* C13 as claimed: for F32, I16 and U16 alike the callback at volume 0 writes
\* only the number zero, and at volume 1 the conversion of the unscaled sample.
C13_ZeroAtVolumeZero ==
    [][CallbackStep =>
         LET buf == ring[output.cons].buf IN
         /\ output.volume = 0 =>
              \A i \in 1..Len(output'.hw) : output'.hw[i] = 0
         /\ output.volume = VolumeOne =>
              \A i \in 1..Min(Len(output'.hw), Len(buf)) :
                output'.hw[i] = FromSample(config.format, VolumeOne * Amplitude(buf[i]))]_vars

\* C13 amended: at volume 0 every sample the callback writes is the conversion
\* of 0.0 to the device format, which is 0 for F32 and I16 and the midpoint
\* 32768 for U16, whatever is buffered; at volume 1 every sample written for a
\* buffered sample is the conversion of that sample unscaled.
C13_SilenceAtVolumeZero ==
    [][CallbackStep =>
         LET buf == ring[output.cons].buf IN
         /\ output.volume = 0 =>
              \A i \in 1..Len(output'.hw) :
                output'.hw[i] = IF config.format = "U16" THEN 32768 ELSE 0
         /\ output.volume = VolumeOne =>
              \A i \in 1..Min(Len(output'.hw), Len(buf)) :
                output'.hw[i] = FromSample(config.format, VolumeOne * Amplitude(buf[i]))]_vars

\* C13 witness: a U16 stream at volume 0 has taken a sample that is not 0.0 and
\* written the midpoint for it.
C13_Witness ==
    /\ config.format = "U16"
    /\ output.volume = 0
    /\ popped[output.cons] # <<>>
    /\ \A i \in 1..Len(popped[output.cons]) : Amplitude(popped[output.cons][i]) # 0
    /\ Len(output.hw) = 2
    /\ output.hw = <<32768, 32768>>

\* C14: after set_volume(v) every callback scales by clamp(v, 0, 1) until the
\* next set_volume: the stream the engine holds after any other engine call, or
\* any decoder or callback step, has that volume, also when set_volume was
\* called with no session and when seek_to rebuilt the stream.
C14_VolumeKept ==
    [][/\ (call.op = "set_volume" /\ ~Called("set_volume") /\ output'.some)
            => output'.volume = Clamped(call.arg)
       /\ (~Called("set_volume") /\ output.some /\ output'.some)
            => output'.volume = output.volume]_vars

\* Thread d ends with an error in this step.
Fails(d) == threads[d].pc # "err" /\ threads'[d].pc = "err"

\* The decoder of the engine's session has ended with an error.
ActiveFailed == decoder_handle # 0 /\ threads[decoder_handle].pc = "err"

\* C15: a decoder thread ending with an error ends alone: the step leaves the
\* engine's stream, handle, source and the other threads as they were; the
\* callback stays enabled while the stream runs, nothing more is enqueued, and
\* with the buffer drained it writes only silence; pause, resume, stop and
\* set_volume called afterwards return Ok and play_file and seek_to can.
C15_DecoderFailsAlone ==
    /\ [][\A d \in ThreadIds :
            /\ Fails(d) =>
                 /\ UNCHANGED <<output, decoder_handle, current_file, call, ring,
                                device, config>>
                 /\ \A e \in ThreadIds : e # d => threads'[e] = threads[e]
            /\ threads[d].pc = "err" =>
                 /\ d \in DOMAIN threads' /\ threads'[d] = threads[d]
                 /\ enq'[d] = enq[d]]_vars
    /\ [][(ActiveFailed /\ CallbackStep /\ Playing /\ ring[output.cons].buf = <<>>)
            => \A i \in 1..Len(output'.hw) :
                 output'.hw[i] = FromSample(config.format, Zero)]_vars
    /\ [][(ActiveFailed /\ EngineCall
             /\ call'.op \in {"pause", "resume", "stop", "set_volume"})
            => call'.result = "Ok"]_vars
    /\ [](ActiveFailed =>
            /\ Playing => ENABLED Callback
            /\ CanCall => ENABLED (play_file /\ call'.result = "Ok")
            /\ (CanCall /\ current_file # NoFile)
                 => ENABLED (seek_to /\ call'.result = "Ok"))

\* C15 witness: the decoder of the running session has failed after a packet
\* went through; the callback drained the buffer and has since written only
\* silence.
C15_Witness ==
    /\ ActiveFailed
    /\ threads[decoder_handle].total > 0
    /\ Playing
    /\ output.cons = decoder_handle
    /\ popped[output.cons] = enq[output.cons]
    /\ popped[output.cons] # <<>>
    /\ Len(output.hw) = 2
    /\ \A i \in 1..2 : output.hw[i] = FromSample(config.format, Zero)

\* C16: a turn of the decode loop that meets the end of the stream ends the
\* thread with Ok, and one that meets a failing packet, be it a read error or a
\* decode error, ends the thread with Err: no failing packet is skipped.
C16_FailuresEndThread ==
    [][\A d \in ThreadIds :
         (threads[d].pc = "read" /\ threads'[d] # threads[d]) =>
           LET t == threads[d]
               info == FileInfo(t.file)
           IN /\ t.fpos >= info.n_frames => threads'[d].pc = "ok"
              /\ (t.fpos < info.n_frames /\ t.fpos \in info.bad_read \cup info.bad_decode)
                   => threads'[d].pc = "err"]_vars

\* C17: while the engine retains a source of known total duration D, reached
\* by play_file and seek_to(t) calls with t <= D, current_position() never
\* reads more than D.
C17_PositionWithinDuration ==
    (current_file # NoFile /\ FileInfo(current_file).probe_ok)
      => current_position <= DurationMs(current_file)

C19_SetDevice ==
    [][Called("set_device") =>
         IF call'.result = "Ok"
         THEN /\ device' = call'.arg
              /\ config' = DeviceConfig(call'.arg)
              /\ Idle'
         ELSE /\ call'.result = "CpalConfig"
              /\ UNCHANGED <<device, config, output, decoder_handle, current_file,
                             position_tracker, threads, ring>>]_vars

\* C19 witness: set_device has failed under a running session that retains its
\* source and whose decoder has buffered samples.
C19_Witness ==
    /\ call.op = "set_device"
    /\ call.result = "CpalConfig"
    /\ call.arg # device
    /\ Playing
    /\ current_file # NoFile
    /\ decoder_handle # 0
    /\ ring[output.cons].buf # <<>>

\* C20: pause() and resume() return Ok whatever the device reports; with no
\* stream they change nothing, with one they change at most whether it runs:
\* decoder handle, threads, ring buffers, retained source, volume and position
\* stay as they were.
C20_PauseResumeFrame ==
    [][(Called("pause") \/ Called("resume")) =>
         /\ call'.result = "Ok"
         /\ UNCHANGED <<device, config, decoder_handle, current_file,
                        position_tracker, threads, ring>>
         /\ ~output.some => output' = output
         /\ output.some =>
              /\ output' = [output EXCEPT !.running = output'.running]
              /\ output'.running \in {output.running, call'.op = "resume"}]_vars

\* C20 witness: pause() has stopped the stream of a session whose decoder has
\* samples in the ring buffer.
C20_Witness ==
    /\ call.op = "pause"
    /\ Paused
    /\ decoder_handle # 0
    /\ ring[output.cons].buf # <<>>

C22_CallbackNoAlloc ==
    [][(CallbackStep /\ Playing /\ output.hw # <<>>) => output'.allocs = 0]_vars

\* The step is a Source::seek call that changed something.
SeekStep == sought' # sought \/ sources' # sources

\* C23: NetworkSource::seek without range support returns Unsupported and
\* leaves current_pos as it was, with range support it returns Ok and sets
\* current_pos to the target; no seek on any source changes what is_seekable()
\* returns, for that source or another.
C23_NetworkSeek ==
    /\ [](\A t \in Sources : IsSeekable(sources[t]) = IsSeekable(SourceNew(t)))
    /\ [][SeekStep =>
            LET s == sought'.source
                src == sources[s]
            IN /\ (src.network /\ ~src.supports_range) =>
                    /\ sought'.result = "Unsupported"
                    /\ sources'[s].current_pos = src.current_pos
               /\ (src.network /\ src.supports_range) =>
                    /\ sought'.result = "Ok"
                    /\ sources'[s].current_pos = sought'.position
               /\ \A t \in Sources :
                    /\ IsSeekable(sources'[t]) = IsSeekable(sources[t])
                    /\ t # s => sources'[t] = sources[t]]_vars

\* C23 witness: a seek on the network source without range support has failed
\* and left it at 0, after seeks moved the other two sources.
C23_Witness ==
    /\ sought.source = "plain"
    /\ sought.position > 0
    /\ sought.result = "Unsupported"
    /\ sources["plain"].current_pos = 0
    /\ sources["ranged"].current_pos > 0
    /\ sources["file"].current_pos > 0

\* C24: between engine calls, also after a play or seek_to that returned an
\* error, the engine holds a decoder handle exactly when it holds an output
\* stream.
C24_MatchedPair == (decoder_handle # 0) <=> output.some

\* The step is a play, play_file or seek_to that starts a session.
SessionStart ==
    /\ EngineCall
    /\ call'.op \in {"play", "play_file", "seek_to"}
    /\ Len(threads') > Len(threads)

\* C25: a play, play_file or seek_to that starts a session gives it a new,
\* empty ring buffer of sample_rate x channels x 2 samples of the engine's
\* config, which its decoder and its stream share; the buffers of earlier
\* sessions stay as they are, and what a callback takes from a buffer was pushed
\* into that buffer by the decoder of its own session.
C25_NewRingPerSession ==
    /\ [][SessionStart =>
            LET d == Len(threads') IN
            /\ d = Len(threads) + 1
            /\ ring'[d].buf = <<>>
            /\ ring'[d].cap = config'.sample_rate * config'.channels * 2
            /\ popped'[d] = <<>>
            /\ decoder_handle' = d
            /\ output'.some => output'.cons = d
            /\ \A e \in ThreadIds : ring'[e] = ring[e]]_vars
    /\ [](/\ output.some => output.cons = decoder_handle
          /\ \A d \in ThreadIds : IsPrefix(popped[d], enq[d]))

\* C25 witness: after a seek_to the callback of the new session has taken
\* samples of the new decoder while samples decoded before the seek sit in the
\* old buffer.
C25_Witness ==
    /\ call.op = "seek_to"
    /\ call.result = "Ok"
    /\ Len(threads) = 2
    /\ ring[1].buf # <<>>
    /\ Playing
    /\ output.cons = 2
    /\ popped[2] # <<>>

\* C26: a decoder thread that has ended with Ok at the end of the stream has
\* an empty staging buffer, on the direct and on the resampling path: every
\* sample it decoded went to the ring buffer or into the resampler.
C26_NothingStaged ==
    \A d \in ThreadIds : threads[d].pc = "ok" => threads[d].in_buf = <<>>

\* Thread d decodes a finite source free of errors.
Clean(d) ==
    LET info == FileInfo(threads[d].file)
    IN info.probe_ok /\ info.bad_read = {} /\ info.bad_decode = {}

\* The stream of session d is running and its callback drains ring d.
Draining(d) == d \in ThreadIds /\ Playing /\ output.cons = d /\ Clean(d)

\* The stream of session d is paused and ring d is full.
PausedFull(d) == Paused /\ output.cons = d /\ Len(ring[d].buf) = ring[d].cap

\* Session d's decoder ends with Ok if its stream keeps running.
FinishesIfDrained(d) == <>[]Draining(d) => <>(d \in ThreadIds /\ threads[d].pc = "ok")

\* C27 as claimed: the decoder of an error-free source whose stream keeps
\* running ends with Ok; while the stream is paused and the buffer full the
\* decoder thread takes no step at all.
C27_DecoderFinishes ==
    /\ \A d \in 1..MaxCalls : FinishesIfDrained(d)
    /\ [][\A d \in ThreadIds :
            PausedFull(d) => (threads'[d] = threads[d] /\ enq'[d] = enq[d])]_vars

\* C27 amended: the decoder of an error-free source whose stream keeps running
\* ends with Ok; while the stream is paused and the buffer full the decoder
\* pushes nothing and, once it is in push_samples, takes no step (before that
\* it may decode the packet it was about to read); with room in the buffer a
\* decoder in push_samples can go on.
C27_DecoderBlocksInPush ==
    /\ \A d \in 1..MaxCalls : FinishesIfDrained(d)
    /\ [][\A d \in ThreadIds :
            PausedFull(d) =>
              /\ enq'[d] = enq[d]
              /\ threads[d].pc = "push" => threads'[d] = threads[d]]_vars
    /\ [](\A d \in ThreadIds :
            (threads[d].pc = "push" /\ Len(ring[d].buf) < ring[d].cap)
              => ENABLED <<DecoderPush(d)>>_vars)

\* C27 witness: the decoder of a paused session waits in push_samples with a
\* full buffer, part of its packet still in hand.
C27_Witness ==
    \E d \in ThreadIds :
      /\ PausedFull(d)
      /\ Clean(d)
      /\ threads[d].pc = "push"
      /\ threads[d].pstart < Len(threads[d].pbuf)
      /\ popped[d] # <<>>

\* The position (ms) of the last sample the callback has taken from ring d.
ConsumedMs(d) ==
    threads[d].start
      + ((Len(popped[d]) \div config.channels) * 1000) \div config.sample_rate

\* The audio (ms) ring d holds when full: 2 s.
CapacityMs(d) == (ring[d].cap * 1000) \div (config.sample_rate * config.channels)

\* C28: in a session whose decoder reports the position (started by
\* seek_to(0), decoding at the device rate) the tracker is never ahead of the
\* position of the last sample the callback consumed by more than the audio a
\* full ring buffer holds.
C28_LeadWithinCapacity ==
    \A d \in ThreadIds :
      (/\ d = decoder_handle
       /\ output.some /\ output.cons = d
       /\ threads[d].has_tracker
       /\ threads[d].start = 0
       /\ ~threads[d].resampling)
        => position_tracker - ConsumedMs(d) <= CapacityMs(d)

====
